---- MODULE Spec2Model ----
(***************************************************************************)
(* Riscv64 ABI of cranelift (cranelift/codegen/src/isa/riscv64/abi.rs) and *)
(* its lowering context (lower/isle.rs): argument-location assignment      *)
(* (compute_arg_locs) as a function of its inputs; the frame prologue and  *)
(* epilogue, the clobber save and restore, and the call, memcpy, probe and *)
(* add-immediate sequences as instruction lists run on a small machine     *)
(* state; the context methods of the lowering as calls that append to the  *)
(* instruction buffer.                                                     *)
(***************************************************************************)
EXTENDS Integers, Sequences, FiniteSets, TLC

VARIABLES
    params,            \* compute_arg_locs: the parameter descriptors (&[AbiParam])
    args_or_rets,      \* compute_arg_locs: "Args" or "Rets"
    add_ret_area_ptr,  \* compute_arg_locs: the flag asking for a return-area pointer
    result,            \* what the call returned; status "none" before the call
    regs,              \* machine: the values of sp, fp and ra
    mem,               \* machine: the 8-byte cells written so far, by address
    insts,             \* machine: the instructions of the running sequence still to execute
    phase,             \* machine: "idle", "entry", "prologue", "body", "epilogue", "done"
    entry,             \* machine: the registers as they were before the prologue
    unwind_info,       \* flags.unwind_info()
    clobbers,          \* the registers the allocator reports as written, in its order
    fixed_frame_storage_size,  \* the bytes of spill and stack slots of the frame
    setup_frame,       \* gen_clobber_save: the setup_frame argument
    clobber_save,      \* what gen_clobber_save returned: <<clobber size, instructions>>
    clobber_restore,   \* what gen_clobber_restore returned: its instructions
    gen,               \* the instruction generator called and its arguments
    emitted,           \* the instructions that generator returned
    buffer,            \* lowering: the instructions emitted so far (lower_ctx)
    next_vreg,         \* lowering: the number of temporaries allocated so far
    lowered            \* lowering: the last context call, its arguments, result and
                       \* the buffer it started from

argvars == <<params, args_or_rets, add_ret_area_ptr, result>>

framevars == <<regs, mem, insts, phase, entry, unwind_info>>

clobvars == <<clobbers, fixed_frame_storage_size, setup_frame, clobber_save, clobber_restore>>

genvars == <<gen, emitted>>

lowervars == <<buffer, next_vreg, lowered>>

codegenvars == <<clobvars, genvars, lowervars>>

-----------------------------------------------------------------------------
(* Value types and parameter descriptors                                   *)

\* Type::is_int: the integer lane types I8 .. I128 (not bool, not reference)
is_int(ty) == ty \in {"I8", "I16", "I32", "I64", "I128"}

\* Type::is_float
is_float(ty) == ty \in {"F32", "F64"}

\* ArgumentPurpose values; StructArgument carries its byte size
Purpose(tag, size) == [tag |-> tag, size |-> size]

Normal == Purpose("Normal", 0)

\* ir::AbiParam { value_type, extension, purpose }
AbiParam(ty, ext, purpose) ==
    [value_type |-> ty, extension |-> ext, purpose |-> purpose]

\* x_reg(n) / f_reg(n) as real registers: class and hardware encoding
x_reg(n) == [class |-> "Int", hw_enc |-> n]

f_reg(n) == [class |-> "Float", hw_enc |-> n]

\* ABIArgSlot::Reg { reg, ty, extension }
SlotReg(reg, ty, ext) == [kind |-> "Reg", reg |-> reg, ty |-> ty, extension |-> ext]

\* ABIArgSlot::Stack { offset, ty, extension }
SlotStack(offset, ty, ext) ==
    [kind |-> "Stack", offset |-> offset, ty |-> ty, extension |-> ext]

\* ABIArg::Slots { slots, purpose }
ABIArgSlots(slots, purpose) == [kind |-> "Slots", slots |-> slots, purpose |-> purpose]

\* ABIArg::reg(reg, ty, extension, purpose): a one-slot location in a register
ABIArg_reg(reg, ty, ext, purpose) == ABIArgSlots(<<SlotReg(reg, ty, ext)>>, purpose)

\* ABIArg::stack(offset, ty, extension, purpose): a one-slot location on the stack
ABIArg_stack(offset, ty, ext, purpose) ==
    ABIArgSlots(<<SlotStack(offset, ty, ext)>>, purpose)

\* ABIArg::StructArg { pointer: None, offset, size, purpose }
ABIArgStructArg(offset, size, purpose) ==
    [kind |-> "StructArg", offset |-> offset, size |-> size, purpose |-> purpose]

\* align_to(x, alignment): x rounded up to a multiple of alignment
align_to(x, alignment) == ((x + alignment - 1) \div alignment) * alignment

Reverse(s) == [k \in 1..Len(s) |-> s[Len(s) + 1 - k]]

-----------------------------------------------------------------------------
(* compute_arg_locs                                                        *)

\* abi.rs:40
STACK_ARG_RET_SIZE_LIMIT == 128 * 1024 * 1024

stack_align_8 == 16 \div 2

\* abi.rs:57 stack_align
stack_align == 16

\* abi.rs:70-74: the inclusive register ranges (x_start, x_end, f_start, f_end)
ArgRegRange(aor) ==
    IF aor = "Args"
    THEN [x_start |-> 10, x_end |-> 17, f_start |-> 10, f_end |-> 17]
    ELSE [x_start |-> 10, x_end |-> 11, f_start |-> 10, f_end |-> 11]

InitLoopStateCursorAtFirst(ps, rng) ==
    [ next_x_reg |-> rng.x_start,
      next_f_reg |-> rng.f_start,
      next_stack |-> 0,
      abi_args |-> <<>>,
      abi_args_for_stack |-> <<>>,
      params_last |-> 0,
      abort |-> FALSE,
      underflow |-> FALSE ]

\* abi.rs:75-89: the cursors and lists before the loop; underflow records that
\* the cursor was decremented at 0
InitLoopState(ps, rng) ==
    [ next_x_reg |-> rng.x_start,
      next_f_reg |-> rng.f_start,
      next_stack |-> 0,
      abi_args |-> <<>>,
      abi_args_for_stack |-> <<>>,
      params_last |-> IF Len(ps) > 0 THEN Len(ps) - 1 ELSE 0,
      abort |-> FALSE,
      underflow |-> FALSE ]

\* abi.rs:98-101
run_out_of_registers(param, st, rng) ==
    \/ (is_float(param.value_type) /\ st.next_f_reg > rng.f_end)
    \/ (is_int(param.value_type) /\ st.next_x_reg > rng.x_end)

\* abi.rs:108-118: the purposes the match accepts
PurposeSupported(purpose) ==
    purpose.tag \in {"VMContext", "Normal", "StructReturn", "StackLimit", "StructArgument"}

\* abi.rs:119-123 and the pushes: the list a location is pushed on
PushArg(st, deferred, arg) ==
    IF deferred
    THEN [st EXCEPT !.abi_args_for_stack = Append(@, arg)]
    ELSE [st EXCEPT !.abi_args = Append(@, arg)]

StructArgStepNoAdvance(st, param, deferred) ==
    LET size == param.purpose.size
        offset == st.next_stack
    IN  IF size % 8 # 0
        THEN [st EXCEPT !.abort = TRUE]
        ELSE PushArg(st, deferred, ABIArgStructArg(offset, size, param.purpose))

\* abi.rs:128-139: a StructArgument parameter
StructArgStep(st, param, deferred) ==
    LET size == param.purpose.size
        offset == st.next_stack
    IN  IF size % 8 # 0
        THEN [st EXCEPT !.abort = TRUE]
        ELSE PushArg([st EXCEPT !.next_stack = @ + size], deferred,
                     ABIArgStructArg(offset, size, param.purpose))

\* abi.rs:141-161: F32 | F64
FloatStep(st, param, deferred, rng) ==
    IF st.next_f_reg <= rng.f_end
    THEN PushArg([st EXCEPT !.next_f_reg = @ + 1], deferred,
                 ABIArg_reg(f_reg(st.next_f_reg), param.value_type,
                            param.extension, param.purpose))
    ELSE PushArg([st EXCEPT !.next_stack = @ + 8], deferred,
                 ABIArg_stack(st.next_stack, param.value_type,
                              param.extension, param.purpose))

IntStepSameReg(st, param, deferred, rng) ==
    IF st.next_x_reg <= rng.x_end
    THEN PushArg(st, deferred,
                 ABIArg_reg(x_reg(st.next_x_reg), param.value_type,
                            param.extension, param.purpose))
    ELSE PushArg([st EXCEPT !.next_stack = @ + 8], deferred,
                 ABIArg_stack(st.next_stack, param.value_type,
                              param.extension, param.purpose))

\* abi.rs:162-182: B1 .. B64 | I8 .. I64 | R32 | R64
IntStep(st, param, deferred, rng) ==
    IF st.next_x_reg <= rng.x_end
    THEN PushArg([st EXCEPT !.next_x_reg = @ + 1], deferred,
                 ABIArg_reg(x_reg(st.next_x_reg), param.value_type,
                            param.extension, param.purpose))
    ELSE PushArg([st EXCEPT !.next_stack = @ + 8], deferred,
                 ABIArg_stack(st.next_stack, param.value_type,
                              param.extension, param.purpose))

\* abi.rs:183-223: I128 | B128
WideStep(st, param, deferred, rng) ==
    LET elem_type == IF param.value_type = "I128" THEN "I64" ELSE "B64"
        ext == param.extension
    IN  IF st.next_x_reg + 1 <= rng.x_end
        THEN PushArg([st EXCEPT !.next_x_reg = @ + 2], deferred,
                     ABIArgSlots(<<SlotReg(x_reg(st.next_x_reg), elem_type, ext),
                                   SlotReg(x_reg(st.next_x_reg + 1), elem_type, ext)>>,
                                 Normal))
        ELSE IF st.next_x_reg <= rng.x_end
        THEN PushArg([st EXCEPT !.next_x_reg = @ + 1, !.next_stack = @ + 8], deferred,
                     ABIArgSlots(<<SlotReg(x_reg(st.next_x_reg), elem_type, ext),
                                   SlotStack(st.next_stack, elem_type, ext)>>,
                                 Normal))
        ELSE PushArg([st EXCEPT !.next_stack = @ + 16], deferred,
                     ABIArgSlots(<<SlotStack(st.next_stack, elem_type, ext),
                                   SlotStack(st.next_stack + 8, elem_type, ext)>>,
                                 Normal))

\* abi.rs:96-226: one iteration of the loop over params (i is 0-based)
LoopBody(st, i, ps, rng) ==
    LET param0 == ps[i + 1]
        deferred == run_out_of_registers(param0, st, rng)
        \* step_last_parameter (abi.rs:90-93): decrement, then index
        underflow == deferred /\ st.params_last = 0
        last == IF deferred THEN st.params_last - 1 ELSE st.params_last
        st1 == [st EXCEPT !.params_last = last]
        param == IF deferred THEN ps[last + 1] ELSE param0
        ty == param.value_type
    IN  IF underflow THEN [st EXCEPT !.abort = TRUE, !.underflow = TRUE]
        ELSE IF ~PurposeSupported(param.purpose) THEN [st1 EXCEPT !.abort = TRUE]
        ELSE IF param.purpose.tag = "StructArgument"
             THEN StructArgStep(st1, param, deferred)
        ELSE IF ty \in {"F32", "F64"} THEN FloatStep(st1, param, deferred, rng)
        ELSE IF ty \in {"B1", "B8", "B16", "B32", "B64", "I8", "I16", "I32", "I64",
                        "R32", "R64"}
             THEN IntStep(st1, param, deferred, rng)
        ELSE IF ty \in {"I128", "B128"} THEN WideStep(st1, param, deferred, rng)
        ELSE [st1 EXCEPT !.abort = TRUE]

RECURSIVE Loop(_, _, _, _)
\* abi.rs:96: for i in 0..params.len()
Loop(st, i, ps, rng) ==
    IF st.abort \/ i >= Len(ps) THEN st
    ELSE Loop(LoopBody(st, i, ps, rng), i + 1, ps, rng)

RetAreaPtrNoBump(st, add, aor, rng) ==
    LET merged == st.abi_args \o Reverse(st.abi_args_for_stack)
    IN  IF ~add THEN [st EXCEPT !.abi_args = merged, !.pos = {}]
        ELSE IF aor # "Args" THEN [st EXCEPT !.abort = TRUE, !.pos = {}]
        ELSE IF st.next_x_reg <= rng.x_end
        THEN [st EXCEPT !.abi_args =
                            Append(merged, ABIArg_reg(x_reg(st.next_x_reg), "I64",
                                                      "None", Normal)),
                        !.pos = {Len(merged)}]
        ELSE [st EXCEPT !.abi_args =
                            Append(merged, ABIArg_stack(st.next_stack, "I64",
                                                        "None", Normal)),
                        !.pos = {Len(merged)}]

\* abi.rs:228-254: merge the two lists, then the return-area pointer; pos is the
\* Option<usize> as a set with at most one (0-based) index
RetAreaPtr(st, add, aor, rng) ==
    LET merged == st.abi_args \o Reverse(st.abi_args_for_stack)
    IN  IF ~add THEN [st EXCEPT !.abi_args = merged, !.pos = {}]
        ELSE IF aor # "Args" THEN [st EXCEPT !.abort = TRUE, !.pos = {}]
        ELSE IF st.next_x_reg <= rng.x_end
        THEN [st EXCEPT !.abi_args =
                            Append(merged, ABIArg_reg(x_reg(st.next_x_reg), "I64",
                                                      "None", Normal)),
                        !.pos = {Len(merged)}]
        ELSE [st EXCEPT !.abi_args =
                            Append(merged, ABIArg_stack(st.next_stack, "I64",
                                                        "None", Normal)),
                        !.next_stack = @ + 8,
                        !.pos = {Len(merged)}]

ExceedsLimitOrEqual(next_stack) == next_stack >= STACK_ARG_RET_SIZE_LIMIT

\* abi.rs:259
ExceedsLimit(next_stack) == next_stack > STACK_ARG_RET_SIZE_LIMIT

\* abi.rs:75-254: the state of the function just before the alignment
BeforeAlign(ps, aor, add) ==
    LET rng == ArgRegRange(aor)
        st0 == InitLoopState(ps, rng) @@ [pos |-> {}]
        st1 == Loop(st0, 0, ps, rng)
    IN  IF st1.abort THEN st1 ELSE RetAreaPtr(st1, add, aor, rng)

\* abi.rs:61-264
compute_arg_locs(ps, aor, add) ==
    LET st == BeforeAlign(ps, aor, add)
        next_stack == align_to(st.next_stack, stack_align)
    IN  IF st.abort
        THEN [status |-> "abort", args |-> <<>>, stack |-> 0, pos |-> {}]
        ELSE IF ExceedsLimit(next_stack)
        THEN [status |-> "err", args |-> <<>>, stack |-> 0, pos |-> {}]
        ELSE [status |-> "ok", args |-> st.abi_args, stack |-> next_stack,
              pos |-> st.pos]

-----------------------------------------------------------------------------
(* Inputs                                                                  *)

MaxTail == 3

PI64 == AbiParam("I64", "None", Normal)

PF64 == AbiParam("F64", "None", Normal)

\* the parameter descriptors the free part of a signature is drawn from
ParamKinds ==
    { PI64,
      AbiParam("I32", "Sext", Normal),
      PF64,
      AbiParam("B1", "Uext", Normal),
      AbiParam("I128", "None", Normal),
      AbiParam("B128", "None", Normal),
      AbiParam("I64", "None", Purpose("StructArgument", 24)),
      AbiParam("I64", "None", Purpose("StructArgument", 12)),
      AbiParam("I64", "None", Purpose("StructArgument", STACK_ARG_RET_SIZE_LIMIT - 8)),
      AbiParam("I8X16", "None", Normal) }

Fill(n, p) == [k \in 1..n |-> p]

Tails == UNION { [1..n -> ParamKinds] : n \in 0..MaxTail }

\* (number of leading I64, number of following F64) before the free part
PrefixShapes ==
    {<<n, 0>> : n \in 0..8} \cup {<<0, n>> : n \in 1..8} \cup {<<8, 8>>}

ParamLists == { Fill(s[1], PI64) \o Fill(s[2], PF64) \o t : s \in PrefixShapes, t \in Tails }

NoResult == [status |-> "none", args |-> <<>>, stack |-> 0, pos |-> {}]

NoRegs == [r \in {"sp", "fp", "ra"} |-> 0]

FrameIdle ==
    /\ regs = NoRegs
    /\ mem = << >>
    /\ insts = << >>
    /\ phase = "idle"
    /\ entry = NoRegs
    /\ unwind_info = FALSE

ClobIdle ==
    /\ clobbers = << >>
    /\ fixed_frame_storage_size = 0
    /\ setup_frame = FALSE
    /\ clobber_save = <<0, << >> >>
    /\ clobber_restore = << >>

GenIdle ==
    /\ gen = [fn |-> "none"]
    /\ emitted = << >>

LowerIdle ==
    /\ buffer = << >>
    /\ next_vreg = 0
    /\ lowered = [op |-> "none", args |-> [none |-> TRUE], status |-> "ok",
                  regs |-> << >>, emitted |-> 0, n |-> 0]

ArgIdle ==
    /\ params = << >>
    /\ args_or_rets = "Args"
    /\ add_ret_area_ptr = FALSE
    /\ result = NoResult

\* a StructArgument purpose is one of arguments, not of return values
Init ==
    /\ params \in ParamLists
    /\ args_or_rets \in {"Args", "Rets"}
    /\ args_or_rets = "Rets" =>
          \A k \in 1..Len(params) : params[k].purpose.tag # "StructArgument"
    /\ add_ret_area_ptr \in BOOLEAN
    /\ result = NoResult
    /\ FrameIdle
    /\ ClobIdle
    /\ GenIdle
    /\ LowerIdle

\* the call of compute_arg_locs on the inputs
ComputeArgLocs ==
    /\ result.status = "none"
    /\ result' = compute_arg_locs(params, args_or_rets, add_ret_area_ptr)
    /\ UNCHANGED <<params, args_or_rets, add_ret_area_ptr>>
    /\ UNCHANGED <<framevars, codegenvars>>

Next == ComputeArgLocs

vars == <<argvars, framevars, codegenvars>>

Spec == Init /\ [][Next]_vars

-----------------------------------------------------------------------------
(* The frame header: prologue and epilogue as instruction sequences         *)

\* the register width of the machine the sequences run on, in bits
WordBits == 13

Word == 2 ^ WordBits

\* Inst::AjustSp { amount }
AjustSp(amount) == [op |-> "AjustSp", amount |-> amount]

\* gen_store_stack(StackAMode::SPOffset(off, I64), from_reg, I64)  (abi.rs:275-277)
gen_store_stack(off, from_reg) == [op |-> "Store", off |-> off, rs |-> from_reg]

\* gen_load_stack(StackAMode::SPOffset(off, I64), into_reg, I64)  (abi.rs:271-273)
gen_load_stack(off, into_reg) == [op |-> "Load", off |-> off, rd |-> into_reg]

\* Inst::Mov { rd, rm, ty }
Mov(rd, rm) == [op |-> "Mov", rd |-> rd, rm |-> rm]

\* Inst::Unwind { inst: PushFrameRegs { offset_upward_to_caller_sp } }
UnwindPushFrameRegs(off) == [op |-> "Unwind", offset_upward_to_caller_sp |-> off]

\* abi.rs:384-414
gen_prologue_frame_setup(flags_unwind_info) ==
    <<AjustSp(-16), gen_store_stack(8, "ra"), gen_store_stack(0, "fp")>>
        \o (IF flags_unwind_info THEN <<UnwindPushFrameRegs(16)>> ELSE << >>)
        \o <<Mov("fp", "sp")>>

gen_epilogue_frame_restore_swapped(flags_unwind_info) ==
    <<gen_load_stack(0, "ra"), gen_load_stack(8, "fp"), AjustSp(16)>>

\* abi.rs:415-430
gen_epilogue_frame_restore(flags_unwind_info) ==
    <<gen_load_stack(8, "ra"), gen_load_stack(0, "fp"), AjustSp(16)>>

\* the address sp + off in the machine's width
Addr(rg, off) == (rg["sp"] + off) % Word

\* the bitwise and of two register values
RECURSIVE BitAnd(_, _)
BitAnd(a, b) ==
    IF a = 0 \/ b = 0 THEN 0
    ELSE (a % 2) * (b % 2) + 2 * BitAnd(a \div 2, b \div 2)

\* a register value read as a signed number
ToSigned(v) == IF v >= Word \div 2 THEN v - Word ELSE v

\* whether the integer condition cc holds of two register values
IntCCHolds(cc, x, y) ==
    CASE cc = "Equal" -> x = y
      [] cc = "NotEqual" -> x # y
      [] cc = "UnsignedLessThan" -> x < y
      [] cc = "UnsignedGreaterThanOrEqual" -> x >= y
      [] cc = "SignedLessThan" -> ToSigned(x) < ToSigned(y)
      [] cc = "SignedGreaterThanOrEqual" -> ToSigned(x) >= ToSigned(y)

\* the address a symbol is linked at
SymbolAddr(name) == IF name.kind = "User" THEN 64 ELSE 96

\* the registers after one instruction; a call is where a sequence stops
ExecRegs(i, rg, m) ==
    CASE i.op = "AjustSp" -> [rg EXCEPT !["sp"] = (@ + i.amount) % Word]
      [] i.op = "Load" -> [rg EXCEPT ![i.rd] = m[Addr(rg, i.off)]]
      [] i.op = "Mov" -> [rg EXCEPT ![i.rd] = rg[i.rm]]
      [] i.op = "LoadFPOffset" -> [rg EXCEPT ![i.rd] = m[(rg["fp"] + i.off) % Word]]
      [] i.op = "LoadConst" -> [rg EXCEPT ![i.rd] = i.imm % Word]
      [] i.op = "LoadExtName" -> [rg EXCEPT ![i.rd] = (SymbolAddr(i.name) + i.offset) % Word]
      [] i.op = "AluRRImm12" /\ i.alu_op = "Addi" ->
            [rg EXCEPT ![i.rd] = (rg[i.rs] + i.imm12) % Word]
      [] i.op = "AluRRImm12" /\ i.alu_op = "Andi" ->
            [rg EXCEPT ![i.rd] = BitAnd(rg[i.rs], i.imm12 % Word)]
      [] i.op = "AluRRR" /\ i.alu_op = "Add" ->
            [rg EXCEPT ![i.rd] = (rg[i.rs1] + rg[i.rs2]) % Word]
      [] i.op = "Icmp" ->
            [rg EXCEPT ![i.rd] = IF IntCCHolds(i.cc, rg[i.rs1], rg[i.rs2]) THEN 1 ELSE 0]
      [] OTHER -> rg

\* the memory after one instruction
ExecMem(i, rg, m) ==
    IF i.op = "Store"
    THEN [a \in DOMAIN m \cup {Addr(rg, i.off)} |->
            IF a = Addr(rg, i.off) THEN rg[i.rs] ELSE m[a]]
    ELSE m

\* the stack pointers a function is entered with: 8-byte aligned, the lowest
\* ones wrap below zero in the prologue
EntrySP == {0, 8, 16, 48, Word - 16}

RegValues == {0, 24, Word - 8}

FrameInit ==
    /\ regs \in [{"sp", "fp", "ra"} -> RegValues \cup EntrySP]
    /\ regs["sp"] \in EntrySP
    /\ regs["fp"] \in RegValues
    /\ regs["ra"] \in RegValues
    /\ unwind_info \in BOOLEAN
    /\ mem = << >>
    /\ insts = << >>
    /\ phase = "entry"
    /\ entry = regs
    /\ ArgIdle
    /\ ClobIdle
    /\ GenIdle
    /\ LowerIdle

\* the prologue is emitted at the function's entry
StartPrologue ==
    /\ phase = "entry"
    /\ insts' = gen_prologue_frame_setup(unwind_info)
    /\ phase' = "prologue"
    /\ UNCHANGED <<regs, mem, entry, unwind_info, argvars, codegenvars>>

\* the machine executes the next instruction of the running sequence
ExecInst ==
    /\ insts # << >>
    /\ Head(insts).op \notin {"Call", "CallInd"}
    /\ regs' = ExecRegs(Head(insts), regs, mem)
    /\ mem' = ExecMem(Head(insts), regs, mem)
    /\ insts' = Tail(insts)
    /\ UNCHANGED <<phase, entry, unwind_info, argvars, codegenvars>>

\* the function body: it may overwrite ra and fp and the cells below the header,
\* and leaves sp at its post-prologue value and the 16-byte header as written
Body ==
    /\ phase = "prologue"
    /\ insts = << >>
    /\ \E ra \in RegValues, fp \in RegValues, v \in RegValues :
          /\ regs' = [regs EXCEPT !["ra"] = ra, !["fp"] = fp]
          /\ mem' = [a \in DOMAIN mem \cup {Addr(regs, -8)} |->
                        IF a = Addr(regs, -8) THEN v ELSE mem[a]]
    /\ phase' = "body"
    /\ UNCHANGED <<insts, entry, unwind_info, argvars, codegenvars>>

\* the epilogue is emitted at the function's return
StartEpilogue ==
    /\ phase = "body"
    /\ insts' = gen_epilogue_frame_restore(unwind_info)
    /\ phase' = "epilogue"
    /\ UNCHANGED <<regs, mem, entry, unwind_info, argvars, codegenvars>>

\* the epilogue has run: the function returns
Return ==
    /\ phase = "epilogue"
    /\ insts = << >>
    /\ phase' = "done"
    /\ UNCHANGED <<regs, mem, insts, entry, unwind_info, argvars, codegenvars>>

NextFrame == StartPrologue \/ ExecInst \/ Body \/ StartEpilogue \/ Return

SpecFrame == FrameInit /\ [][NextFrame]_vars

-----------------------------------------------------------------------------
(* Reading a location list                                                 *)

Called == result.status # "none"

Ok == result.status = "ok"

NParams == Len(params)

\* the number of registers of one class in the convention's range
RegCount(aor) == ArgRegRange(aor).x_end - ArgRegRange(aor).x_start + 1

ClassStart(aor, cls) ==
    IF cls = "Int" THEN ArgRegRange(aor).x_start ELSE ArgRegRange(aor).f_start

ClassReg(cls, n) == IF cls = "Int" THEN x_reg(n) ELSE f_reg(n)

IsStruct(p) == p.purpose.tag = "StructArgument"

IsWide(p) == ~IsStruct(p) /\ p.value_type \in {"I128", "B128"}

\* a parameter of at most 64 bits passed by value, and its register class
IsScalar(p) ==
    /\ ~IsStruct(p)
    /\ p.value_type \in {"B1", "B8", "B16", "B32", "B64", "I8", "I16", "I32", "I64",
                         "R32", "R64", "F32", "F64"}

ClassOf(p) == IF p.value_type \in {"F32", "F64"} THEN "Float" ELSE "Int"

OneClassScalars(ps, cls) == \A k \in 1..Len(ps) : IsScalar(ps[k]) /\ ClassOf(ps[k]) = cls

SlotsOf(loc) == IF loc.kind = "Slots" THEN loc.slots ELSE <<>>

\* the registers of class cls held by a location
RegsOfLoc(loc, cls) ==
    { SlotsOf(loc)[k].reg.hw_enc :
        k \in { j \in 1..Len(SlotsOf(loc)) :
                  /\ SlotsOf(loc)[j].kind = "Reg"
                  /\ SlotsOf(loc)[j].reg.class = cls } }

\* the registers of class cls claimed by the first n locations
RegsBefore(args, n, cls) == UNION { RegsOfLoc(args[k], cls) : k \in 1..n }

\* the stack bytes of a location: 8 per stack slot, size for a struct argument
LocStackBytes(loc) ==
    IF loc.kind = "StructArg" THEN loc.size
    ELSE 8 * Cardinality({ k \in 1..Len(loc.slots) : loc.slots[k].kind = "Stack" })

RECURSIVE StackBytes(_, _)
\* the stack bytes of the first n locations
StackBytes(args, n) ==
    IF n = 0 THEN 0 ELSE StackBytes(args, n - 1) + LocStackBytes(args[n])

OnStack(loc) == LocStackBytes(loc) > 0

IsOneReg(loc) ==
    loc.kind = "Slots" /\ Len(loc.slots) = 1 /\ loc.slots[1].kind = "Reg"

IsOneStackSlot(loc) ==
    loc.kind = "Slots" /\ Len(loc.slots) = 1 /\ loc.slots[1].kind = "Stack"

\* location loc carries the type, extension and purpose of parameter p
Describes(loc, p) ==
    IF IsStruct(p)
    THEN loc.kind = "StructArg" /\ loc.size = p.purpose.size /\ loc.purpose = p.purpose
    ELSE IF IsWide(p)
    THEN /\ loc.kind = "Slots"
         /\ Len(loc.slots) = 2
         /\ \A k \in 1..2 :
               /\ loc.slots[k].ty = (IF p.value_type = "I128" THEN "I64" ELSE "B64")
               /\ loc.slots[k].extension = p.extension
         /\ loc.purpose = p.purpose
    ELSE /\ loc.kind = "Slots"
         /\ Len(loc.slots) = 1
         /\ loc.slots[1].ty = p.value_type
         /\ loc.slots[1].extension = p.extension
         /\ loc.purpose = p.purpose

RoundedUp16(total, bytes) == total % 16 = 0 /\ total >= bytes /\ total < bytes + 16

-----------------------------------------------------------------------------
(* Claims                                                                  *)

\* C1: in every successful result, output location i describes input parameter i
\* (its value type or the two 64-bit halves of it, its extension and its purpose),
\* for every index i
C1_OutputDescribesInput ==
    Ok => \A i \in 1..NParams : Describes(result.args[i], params[i])

\* C2: N > R scalar parameters of one class: exactly N-R of them are on the stack,
\* they are the last N-R parameters in their original order, their offsets in
\* output order are 0, 8, 16, ..., and the first R parameters get the locations
\* they get when only R parameters are passed
C2_OverflowToStack ==
    \A cls \in {"Int", "Float"} :
        LET R == RegCount(args_or_rets) IN
        (Ok /\ OneClassScalars(params, cls) /\ NParams > R) =>
            /\ Cardinality({ i \in 1..NParams : OnStack(result.args[i]) }) = NParams - R
            /\ \A i \in (R + 1)..NParams :
                  /\ IsOneStackSlot(result.args[i])
                  /\ Describes(result.args[i], params[i])
                  /\ result.args[i].slots[1].offset = 8 * (i - R - 1)
            /\ \A i \in 1..R :
                  result.args[i] =
                      compute_arg_locs(SubSeq(params, 1, R), args_or_rets, FALSE).args[i]

\* C3: a scalar parameter i of at most 64 bits gets the next free register of its
\* own class when fewer registers of that class than the range holds are claimed
\* by the parameters before it, whatever the other class did, and one 8-byte
\* stack slot otherwise
C3_IndependentCursors ==
    Ok => \A i \in 1..NParams :
            IsScalar(params[i]) =>
                LET cls == ClassOf(params[i])
                    claimed == Cardinality(RegsBefore(result.args, i - 1, cls))
                IN  IF claimed < RegCount(args_or_rets)
                    THEN /\ IsOneReg(result.args[i])
                         /\ result.args[i].slots[1].reg =
                                ClassReg(cls, ClassStart(args_or_rets, cls) + claimed)
                    ELSE IsOneStackSlot(result.args[i])

\* what C4 says of the parameters: N <= R scalars of one class, parameter i in
\* the i-th register of the range, the registers pairwise distinct
C4_ParamsInRegisters(cls) ==
    /\ Ok
    /\ \A i \in 1..NParams :
          result.args[i] =
              ABIArg_reg(ClassReg(cls, ClassStart(args_or_rets, cls) + i - 1),
                         params[i].value_type, params[i].extension, params[i].purpose)
    /\ \A i, j \in 1..NParams :
          i # j => result.args[i].slots[1].reg # result.args[j].slots[1].reg

C4_Case(cls) ==
    /\ Called
    /\ ~(add_ret_area_ptr /\ args_or_rets = "Rets")
    /\ OneClassScalars(params, cls)
    /\ NParams <= RegCount(args_or_rets)

\* the requested return-area pointer finds no integer register left
C4_PointerSpilled(cls) ==
    add_ret_area_ptr /\ cls = "Int" /\ NParams = RegCount(args_or_rets)

\* C4 as stated: N <= R scalar parameters of one class get the first N registers
\* of the range, pairwise distinct, no stack location is produced and the
\* reported stack size is 0
C4_Original ==
    \A cls \in {"Int", "Float"} :
        C4_Case(cls) =>
            /\ C4_ParamsInRegisters(cls)
            /\ \A i \in 1..Len(result.args) : ~OnStack(result.args[i])
            /\ result.stack = 0

\* C4 (amended): N <= R scalar parameters of one class get the first N registers
\* of the range, pairwise distinct, and no parameter is on the stack; the list
\* holds no stack location and the reported size is 0, except that a requested
\* return-area pointer that finds no integer register left (8 integer arguments)
\* is alone on the stack, at offset 0, and the reported size is then 16
C4_AllInRegisters ==
    \A cls \in {"Int", "Float"} :
        C4_Case(cls) =>
            /\ C4_ParamsInRegisters(cls)
            /\ IF C4_PointerSpilled(cls)
               THEN /\ result.args[NParams + 1] = ABIArg_stack(0, "I64", "None", Normal)
                    /\ result.stack = 16
               ELSE /\ \A i \in 1..Len(result.args) : ~OnStack(result.args[i])
                    /\ result.stack = 0

C4_Witness ==
    /\ Ok
    /\ args_or_rets = "Args"
    /\ NParams = 8
    /\ OneClassScalars(params, "Int")
    /\ \E i \in 1..8 : params[i].value_type = "I32"
    /\ ~add_ret_area_ptr
    /\ result.stack = 0

\* C5: the reported stack size of a successful call is the sum of the bytes of
\* all stack-resident slots of the list (8 per slot, size per struct argument)
\* rounded up to a multiple of 16; nine plain integer arguments get x10..x17 in
\* input order, then stack offset 0, and the size 16
C5_StackSize ==
    Ok =>
        /\ RoundedUp16(result.stack, StackBytes(result.args, Len(result.args)))
        /\ (params = Fill(9, PI64) /\ args_or_rets = "Args") =>
              /\ \A i \in 1..8 :
                    result.args[i] = ABIArg_reg(x_reg(9 + i), "I64", "None", Normal)
              /\ result.args[9] = ABIArg_stack(0, "I64", "None", Normal)
              /\ result.stack = 16

C5_Witness ==
    /\ Ok
    /\ params = Fill(9, PI64)
    /\ args_or_rets = "Args"
    /\ ~add_ret_area_ptr
    /\ result.stack = 16

\* C6: the call returns the ImplLimitExceeded error, and no list, exactly when the
\* 16-byte-aligned stack area exceeds 128 MiB; an area of exactly 128 MiB is
\* returned as Ok with that size
C6_SizeLimit ==
    LET st == BeforeAlign(params, args_or_rets, add_ret_area_ptr)
        bytes == st.next_stack
        area == CHOOSE a \in bytes..(bytes + 15) : a % 16 = 0
    IN  (Called /\ ~st.abort) =>
            /\ result.status = "err" <=> area > 134217728
            /\ result.status = "err" => result.args = <<>>
            /\ area = 134217728 => (Ok /\ result.stack = 134217728)
            /\ Ok => result.stack = area

C6_Witness ==
    /\ result.status = "err"
    /\ BeforeAlign(params, args_or_rets, add_ret_area_ptr).next_stack = 134217728 + 8

\* C7: a 128-bit integer or boolean parameter yields one location of exactly two
\* 64-bit slots: two consecutive integer registers when at least two remain,
\* [register, stack slot] when exactly one remains, two consecutive 8-byte stack
\* slots when none remains
C7_WideSplit ==
    Ok => \A i \in 1..NParams :
            IsWide(params[i]) =>
                LET loc == result.args[i]
                    claimed == Cardinality(RegsBefore(result.args, i - 1, "Int"))
                    remain == RegCount(args_or_rets) - claimed
                    nxt == ClassStart(args_or_rets, "Int") + claimed
                IN  /\ loc.kind = "Slots"
                    /\ Len(loc.slots) = 2
                    /\ remain >= 2 =>
                          /\ loc.slots[1].kind = "Reg" /\ loc.slots[1].reg = x_reg(nxt)
                          /\ loc.slots[2].kind = "Reg" /\ loc.slots[2].reg = x_reg(nxt + 1)
                    /\ remain = 1 =>
                          /\ loc.slots[1].kind = "Reg" /\ loc.slots[1].reg = x_reg(nxt)
                          /\ loc.slots[2].kind = "Stack"
                    /\ remain <= 0 =>
                          /\ loc.slots[1].kind = "Stack"
                          /\ loc.slots[2].kind = "Stack"
                          /\ loc.slots[2].offset = loc.slots[1].offset + 8

\* the stack offsets at which a location starts a slot
StackOffsetsOf(loc) ==
    IF loc.kind = "StructArg" THEN {loc.offset}
    ELSE { loc.slots[k].offset : k \in { j \in 1..Len(loc.slots) : loc.slots[j].kind = "Stack" } }

AllStackOffsets(args) == UNION { StackOffsetsOf(args[k]) : k \in 1..Len(args) }

\* C8: a StructArgument(size) parameter always gets a stack-resident StructArg
\* location of that size, never a register; the next stack location allocated
\* after it starts at its offset + size; a size that is not a multiple of 8
\* aborts the call
C8_StructArgOnStack ==
    Called => \A i \in 1..NParams :
        IsStruct(params[i]) =>
            /\ params[i].purpose.size % 8 # 0 => result.status = "abort"
            /\ Ok =>
                  LET loc == result.args[i]
                      later == { o \in AllStackOffsets(result.args) : o > loc.offset }
                  IN  /\ loc.kind = "StructArg"
                      /\ loc.size = params[i].purpose.size
                      /\ \A o \in later : o >= loc.offset + loc.size
                      /\ later # {} => (loc.offset + loc.size) \in later

\* the lowest integer argument register no parameter location holds, if any
FreeIntRegs(args, n) ==
    (ArgRegRange("Args").x_start..ArgRegRange("Args").x_end) \ RegsBefore(args, n, "Int")

\* C9: when a return-area pointer is asked for, its location is the last entry of
\* the list: the next unclaimed integer argument register if one remains, else the
\* next 8-byte stack slot, which the reported size counts; the returned index is
\* the position of that entry. When it is not asked for, the index is None and
\* the list has one entry per parameter
C9_RetAreaPtr ==
    Ok =>
        IF add_ret_area_ptr
        THEN LET free == FreeIntRegs(result.args, NParams)
                 off == StackBytes(result.args, NParams)
                 last == result.args[Len(result.args)]
             IN  /\ Len(result.args) = NParams + 1
                 /\ result.pos = {Len(result.args) - 1}
                 /\ IF free # {}
                    THEN last = ABIArg_reg(x_reg(CHOOSE r \in free : \A q \in free : r <= q),
                                           "I64", "None", Normal)
                    ELSE /\ last = ABIArg_stack(off, "I64", "None", Normal)
                         /\ result.stack >= off + 8
        ELSE /\ result.pos = {}
             /\ Len(result.args) = NParams

C9_Witness ==
    /\ Ok
    /\ add_ret_area_ptr
    /\ NParams = 9
    /\ IsOneStackSlot(result.args[10])
    /\ result.args[10].slots[1].offset = 8
    /\ result.pos = {9}

\* C10: the prologue's sequence, then (sp back at its post-prologue value, the
\* header untouched) the epilogue's sequence leave sp, fp and ra at their values
\* before the prologue, whatever those values are
C10_PrologueEpilogue ==
    phase = "done" =>
        /\ regs["sp"] = entry["sp"]
        /\ regs["fp"] = entry["fp"]
        /\ regs["ra"] = entry["ra"]

C10_Witness ==
    /\ phase = "done"
    /\ entry["sp"] = 8
    /\ entry["fp"] # entry["ra"]
    /\ regs = entry
    /\ mem[Word - 8] = entry["fp"]
    /\ mem[0] = entry["ra"]

-----------------------------------------------------------------------------
(* Saving and restoring the clobbered callee-saved registers                *)

\* abi.rs:708-712
CALLER_SAVE_X_REG == [n \in 0..31 |-> n \in ({1, 5, 6, 7} \cup (10..17) \cup (28..31))]

\* abi.rs:714-719
CALLEE_SAVE_X_REG == [n \in 0..31 |-> n \in ({2, 8, 9} \cup (18..27))]

\* abi.rs:720-725
CALLER_SAVE_F_REG == [n \in 0..31 |-> n \in ((0..7) \cup (9..17) \cup (28..31))]

\* abi.rs:726-731
CALLEE_SAVE_F_REG == [n \in 0..31 |-> n \in ({8} \cup (18..27))]

is_reg_saved_in_prologue_by_caller_tables(reg) ==
    IF reg.class = "Int" THEN CALLER_SAVE_X_REG[reg.hw_enc] ELSE CALLER_SAVE_F_REG[reg.hw_enc]

\* abi.rs:733-741
is_reg_saved_in_prologue(reg) ==
    IF reg.class = "Int" THEN CALLEE_SAVE_X_REG[reg.hw_enc] ELSE CALLEE_SAVE_F_REG[reg.hw_enc]

\* the order of physical registers (Ord of regalloc2's PReg): the class in the
\* high bits, Int before Float, then the hardware encoding
PRegOrder(reg) == (IF reg.class = "Float" THEN 64 ELSE 0) + reg.hw_enc

\* Vec::sort over registers
RECURSIVE sort(_)
sort(s) ==
    IF s = << >> THEN << >>
    ELSE LET h == Head(s)
             rest == sort(Tail(s))
             Below(r) == PRegOrder(r) < PRegOrder(h)
             NotBelow(r) == ~Below(r)
         IN  SelectSeq(rest, Below) \o <<h>> \o SelectSeq(rest, NotBelow)

\* abi.rs:676-690
get_clobbered_callee_saves(rs) == sort(SelectSeq(rs, is_reg_saved_in_prologue))

compute_clobber_size_unaligned(list) == 8 * Len(list)

\* abi.rs:743-756
compute_clobber_size(list) == align_to(8 * Len(list), 16)

\* the machine's name of a register: x1, x2 and x8 are ra, sp and fp
RegName(reg) ==
    IF reg.class = "Float" THEN "f" \o ToString(reg.hw_enc)
    ELSE CASE reg.hw_enc = 1 -> "ra"
           [] reg.hw_enc = 2 -> "sp"
           [] reg.hw_enc = 8 -> "fp"
           [] OTHER -> "x" \o ToString(reg.hw_enc)

\* Inst::Unwind { inst: DefineNewFrame { .. } }
UnwindDefineNewFrame(down, up) ==
    [op |-> "Unwind", inst |-> "DefineNewFrame",
     offset_downward_to_clobbers |-> down, offset_upward_to_caller_sp |-> up]

\* Inst::Unwind { inst: SaveReg { clobber_offset, reg } }
UnwindSaveReg(off, reg) ==
    [op |-> "Unwind", inst |-> "SaveReg", clobber_offset |-> off, reg |-> reg]

\* the loop of gen_clobber_save over the registers still to store  (abi.rs:483-502)
RECURSIVE SaveLoop(_, _, _)
SaveLoop(list, cur_offset, flags_unwind_info) ==
    IF list = << >> THEN << >>
    ELSE (IF flags_unwind_info THEN <<UnwindSaveReg(cur_offset, Head(list))>> ELSE << >>)
            \o <<gen_store_stack(cur_offset, RegName(Head(list)))>>
            \o SaveLoop(Tail(list), cur_offset + 8, flags_unwind_info)

\* abi.rs:451-506; the result is <<clobbered_size, insts>>
gen_clobber_save(setup, flags_unwind_info, clobbered_callee_saves, fixed) ==
    LET clobbered_size == compute_clobber_size(clobbered_callee_saves)
        stack_size == fixed + clobbered_size
    IN  <<clobbered_size,
          (IF flags_unwind_info /\ setup
             THEN <<UnwindDefineNewFrame(clobbered_size, 16)>> ELSE << >>)
          \o (IF stack_size > 0
                THEN <<AjustSp(-stack_size)>>
                        \o SaveLoop(clobbered_callee_saves, 0, flags_unwind_info)
                ELSE << >>)>>

\* the loop of gen_clobber_restore  (abi.rs:522-533)
RECURSIVE RestoreLoop(_, _)
RestoreLoop(list, cur_offset) ==
    IF list = << >> THEN << >>
    ELSE <<gen_load_stack(cur_offset, RegName(Head(list)))>>
            \o RestoreLoop(Tail(list), cur_offset + 8)

gen_clobber_restore_unsorted(rs, fixed) ==
    LET clobbered_callee_saves == SelectSeq(rs, is_reg_saved_in_prologue)
        stack_size == fixed + compute_clobber_size(clobbered_callee_saves)
    IN  RestoreLoop(clobbered_callee_saves, 0)
          \o (IF stack_size > 0 THEN <<AjustSp(stack_size)>> ELSE << >>)

\* abi.rs:508-540
gen_clobber_restore(rs, fixed) ==
    LET clobbered_callee_saves == get_clobbered_callee_saves(rs)
        stack_size == fixed + compute_clobber_size(clobbered_callee_saves)
    IN  RestoreLoop(clobbered_callee_saves, 0)
          \o (IF stack_size > 0 THEN <<AjustSp(stack_size)>> ELSE << >>)

\* the longest list of clobbered registers
MaxClobbers == 3

\* the registers the allocator may report: callee-saved of both classes, and
\* a caller-saved one
ClobberRegs == {x_reg(9), x_reg(18), f_reg(8), f_reg(18), x_reg(10)}

\* the lists without repetition, in every order
ClobberLists ==
    {s \in UNION {[1..n -> ClobberRegs] : n \in 0..MaxClobbers} :
        \A i, j \in 1..Len(s) : i # j => s[i] # s[j]}

\* fixed frame sizes: the frame's slots are 16-byte aligned in total
FixedFrameSizes == {0, 16, 32}

ClobberNames == {RegName(r) : r \in ClobberRegs}

ClobberInit ==
    /\ clobbers \in ClobberLists
    /\ fixed_frame_storage_size \in FixedFrameSizes
    /\ setup_frame \in BOOLEAN
    /\ unwind_info \in BOOLEAN
    /\ clobber_save = <<0, << >> >>
    /\ clobber_restore = << >>
    /\ \E sp \in {8, 48} :
          regs = [n \in {"sp"} \cup ClobberNames |->
                    IF n = "sp" THEN sp
                    ELSE 1 + PRegOrder(CHOOSE r \in ClobberRegs : RegName(r) = n)]
    /\ mem = << >>
    /\ insts = << >>
    /\ phase = "centry"
    /\ entry = regs
    /\ ArgIdle
    /\ GenIdle
    /\ LowerIdle

\* the prologue saves the clobbered callee-saved registers
StartClobberSave ==
    /\ phase = "centry"
    /\ clobber_save' = gen_clobber_save(setup_frame, unwind_info,
                            get_clobbered_callee_saves(clobbers), fixed_frame_storage_size)
    /\ insts' = clobber_save'[2]
    /\ phase' = "csave"
    /\ UNCHANGED <<regs, mem, entry, unwind_info, argvars>>
    /\ UNCHANGED <<clobbers, fixed_frame_storage_size, setup_frame, clobber_restore>>
    /\ UNCHANGED <<genvars, lowervars>>

\* the function body writes every register of the clobber list, and a cell of its
\* frame above the saved registers if there is one; it leaves sp at its value and
\* the cells of the saved registers as written
ClobberBody ==
    /\ phase = "csave"
    /\ insts = << >>
    /\ \E v \in {0, Word - 8} :
          LET written == {RegName(clobbers[k]) : k \in 1..Len(clobbers)}
              saved == 8 * Len(get_clobbered_callee_saves(clobbers))
              cells == IF saved < fixed_frame_storage_size + clobber_save[1]
                       THEN {Addr(regs, saved)} ELSE {}
          IN  /\ regs' = [n \in DOMAIN regs |-> IF n \in written THEN v ELSE regs[n]]
              /\ mem' = [a \in DOMAIN mem \cup cells |-> IF a \in cells THEN v ELSE mem[a]]
    /\ phase' = "cbody"
    /\ UNCHANGED <<insts, entry, unwind_info, argvars, clobvars, genvars, lowervars>>

\* the epilogue restores them
StartClobberRestore ==
    /\ phase = "cbody"
    /\ clobber_restore' = gen_clobber_restore(clobbers, fixed_frame_storage_size)
    /\ insts' = clobber_restore'
    /\ phase' = "crestore"
    /\ UNCHANGED <<regs, mem, entry, unwind_info, argvars>>
    /\ UNCHANGED <<clobbers, fixed_frame_storage_size, setup_frame, clobber_save>>
    /\ UNCHANGED <<genvars, lowervars>>

\* the restore has run
ClobberDone ==
    /\ phase = "crestore"
    /\ insts = << >>
    /\ phase' = "cdone"
    /\ UNCHANGED <<regs, mem, insts, entry, unwind_info, argvars, codegenvars>>

NextClobber ==
    StartClobberSave \/ ExecInst \/ ClobberBody \/ StartClobberRestore \/ ClobberDone

SpecClobber == ClobberInit /\ [][NextClobber]_vars

-----------------------------------------------------------------------------
(* Claims about the clobber save and restore                               *)

\* the stores of a sequence, the loads of a sequence, and the sum of its sp changes
StoresOf(is) == SelectSeq(is, LAMBDA i : i.op = "Store")

LoadsOf(is) == SelectSeq(is, LAMBDA i : i.op = "Load")

RECURSIVE SpChange(_)
SpChange(is) ==
    IF is = << >> THEN 0
    ELSE (IF Head(is).op = "AjustSp" THEN Head(is).amount ELSE 0) + SpChange(Tail(is))

\* the sequence without its unwind pseudo-instructions
Machine(is) == SelectSeq(is, LAMBDA i : i.op # "Unwind")

SavedRegs == {r \in ClobberRegs :
                /\ \E k \in 1..Len(clobbers) : clobbers[k] = r
                /\ is_reg_saved_in_prologue(r)}

\* C11: after gen_clobber_save on get_clobbered_callee_saves(clobbers) and then
\* gen_clobber_restore on the same clobbers (in any order) and fixed frame size,
\* each saved register is loaded from exactly the offset it was stored at and no
\* other register is loaded; once the restore has run every clobbered
\* callee-saved register holds the value it had before the save, and the restore
\* raises sp by what the save lowered it (sp is back at its entry value).
C11_SaveRestore ==
    /\ phase \in {"crestore", "cdone"} =>
          /\ \A r \in SavedRegs :
                \E off \in 0..(8 * MaxClobbers + 8) :
                    /\ \E k \in DOMAIN StoresOf(clobber_save[2]) :
                          StoresOf(clobber_save[2])[k] = gen_store_stack(off, RegName(r))
                    /\ \E k \in DOMAIN LoadsOf(clobber_restore) :
                          LoadsOf(clobber_restore)[k] = gen_load_stack(off, RegName(r))
          /\ Len(LoadsOf(clobber_restore)) = Cardinality(SavedRegs)
          /\ Len(StoresOf(clobber_save[2])) = Cardinality(SavedRegs)
          /\ SpChange(clobber_save[2]) + SpChange(clobber_restore) = 0
    /\ phase = "cdone" =>
          /\ \A r \in SavedRegs : regs[RegName(r)] = entry[RegName(r)]
          /\ regs["sp"] = entry["sp"]

\* three clobbered registers reported out of order, two classes among the saved
\* ones and a caller-saved one among them, over a fixed frame; the restore has run
C11_Witness ==
    /\ phase = "cdone"
    /\ clobbers = <<f_reg(8), x_reg(10), x_reg(18)>>
    /\ fixed_frame_storage_size = 16
    /\ regs["x10"] # entry["x10"]

C12_WitnessEmpty ==
    /\ phase = "csave"
    /\ clobbers = <<x_reg(10)>>
    /\ fixed_frame_storage_size = 0
    /\ Machine(clobber_save[2]) = << >>

\* C18: the clobbered registers are stored above the fixed frame slots, the F
\* bytes that start at the post-adjustment sp: every store of gen_clobber_save
\* targets an sp offset of at least F.
C18_ClobbersAboveFixedFrame ==
    phase \notin {"centry", "idle"} =>
        \A k \in DOMAIN StoresOf(clobber_save[2]) :
            StoresOf(clobber_save[2])[k].off >= fixed_frame_storage_size

-----------------------------------------------------------------------------
(* Call sequences, memcpy, stack probe and add-immediate                    *)

\* the argument registers a0, a1, a2 (x10, x11, x12) and the second spill temporary
a0 == RegName(x_reg(10))

a1 == RegName(x_reg(11))

a2 == RegName(x_reg(12))

spilltmp_reg2 == "spilltmp2"

\* ir::ExternalName: User { namespace, index }, TestCase, LibCall(..)
ExternalName(kind, id) == [kind |-> kind, id |-> id]

\* CallDest::ExtName(name, distance) and CallDest::Reg(reg)
CallDestExtName(name, distance) == [kind |-> "ExtName", name |-> name, distance |-> distance]

CallDestReg(reg) == [kind |-> "Reg", reg |-> reg]

\* Inst::Call { info: CallInfo { .. } }
Call(dest, uses, defs, clob, opcode, caller_callconv, callee_callconv) ==
    [op |-> "Call", dest |-> dest, uses |-> uses, defs |-> defs, clobbers |-> clob,
     opcode |-> opcode, caller_callconv |-> caller_callconv,
     callee_callconv |-> callee_callconv]

\* Inst::CallInd { info: CallIndInfo { .. } }
CallInd(rn, uses, defs, clob, opcode, caller_callconv, callee_callconv) ==
    [op |-> "CallInd", rn |-> rn, uses |-> uses, defs |-> defs, clobbers |-> clob,
     opcode |-> opcode, caller_callconv |-> caller_callconv,
     callee_callconv |-> callee_callconv]

\* Inst::LoadExtName { rd, name, offset }
LoadExtName(rd, name, offset) ==
    [op |-> "LoadExtName", rd |-> rd, name |-> name, offset |-> offset]

\* Inst::AluRRImm12 { alu_op, rd, rs, imm12 }
AluRRImm12(alu_op, rd, rs, imm12) ==
    [op |-> "AluRRImm12", alu_op |-> alu_op, rd |-> rd, rs |-> rs, imm12 |-> imm12]

\* Inst::AluRRR { alu_op, rd, rs1, rs2 }
AluRRR(alu_op, rd, rs1, rs2) ==
    [op |-> "AluRRR", alu_op |-> alu_op, rd |-> rd, rs1 |-> rs1, rs2 |-> rs2]

\* Inst::load_constant_u32 / load_constant_u64: the instructions that leave the
\* constant in rd
load_constant(rd, value) == <<[op |-> "LoadConst", rd |-> rd, imm |-> value]>>

\* Imm12::maybe_from_u64 of a zero-extended u32: the values of a signed 12-bit
\* field that such a value can be
Imm12_fits(value) == value < 2048

\* abi.rs:315-337
gen_add_imm(into_reg, from_reg, imm) ==
    IF Imm12_fits(imm)
    THEN <<AluRRImm12("Andi", into_reg, from_reg, imm)>>
    ELSE load_constant(spilltmp_reg2, imm)
            \o <<AluRRR("Add", into_reg, spilltmp_reg2, from_reg)>>

\* abi.rs:432-447
gen_probestack(frame_size) ==
    load_constant(a0, frame_size)
       \o <<Call(ExternalName("LibCall", "Probestack"), <<a0>>, << >>, {},
                 "Call", "SystemV", "SystemV")>>

\* abi.rs:553-564
use_direct_call(name, distance) == name.kind = "User" /\ distance = "Near"

gen_call_always_two(dest, uses, defs, clob, opcode, tmp, callee_conv, caller_conv) ==
    IF dest.kind = "ExtName" /\ use_direct_call(dest.name, dest.distance)
    THEN <<Call(dest.name, uses, defs, clob, opcode, caller_conv, callee_conv)>>
    ELSE <<(IF dest.kind = "ExtName" THEN LoadExtName(tmp, dest.name, 0)
                                      ELSE Mov(tmp, dest.reg)),
           CallInd(tmp, uses, defs, clob, opcode, caller_conv, callee_conv)>>

\* abi.rs:542-612
gen_call(dest, uses, defs, clob, opcode, tmp, callee_conv, caller_conv) ==
    IF dest.kind = "ExtName"
    THEN IF use_direct_call(dest.name, dest.distance)
         THEN <<Call(dest.name, uses, defs, clob, opcode, caller_conv, callee_conv)>>
         ELSE <<LoadExtName(tmp, dest.name, 0),
                CallInd(tmp, uses, defs, clob, opcode, caller_conv, callee_conv)>>
    ELSE <<CallInd(dest.reg, uses, defs, clob, opcode, caller_conv, callee_conv)>>

get_regs_clobbered_by_call_int_only(call_conv_of_callee) ==
    {x_reg(k) : k \in {n \in 0..31 : CALLER_SAVE_X_REG[n]}}

\* abi.rs:659-674
get_regs_clobbered_by_call(call_conv_of_callee) ==
    {x_reg(k) : k \in {n \in 0..31 : CALLER_SAVE_X_REG[n]}}
        \cup {f_reg(k) : k \in {n \in 0..31 : CALLER_SAVE_F_REG[n]}}

gen_memcpy_src_first(call_conv, dst, src, size) ==
    <<Mov(a1, src), Mov(a0, dst)>>
       \o load_constant(a2, size)
       \o <<Call(ExternalName("LibCall", "Memcpy"), <<a0, a1, a2>>, << >>,
                 get_regs_clobbered_by_call(call_conv), "Call", call_conv, call_conv)>>

\* abi.rs:614-639
gen_memcpy(call_conv, dst, src, size) ==
    <<Mov(a0, dst), Mov(a1, src)>>
       \o load_constant(a2, size)
       \o <<Call(ExternalName("LibCall", "Memcpy"), <<a0, a1, a2>>, << >>,
                 get_regs_clobbered_by_call(call_conv), "Call", call_conv, call_conv)>>

\* the destinations of a call: user, test-case and libcall names at both
\* distances, and an address in a register
CallDests ==
    {CallDestExtName(n, d) :
        n \in {ExternalName("User", 1), ExternalName("TestCase", "f"),
               ExternalName("LibCall", "Memcpy")},
        d \in {"Near", "Far"}}
      \cup {CallDestReg(r) : r \in {"x5", a0}}

\* the calls of the generators; gen_call is given the clobber set of the callee's
\* convention by its caller
GenCalls ==
    {[fn |-> "gen_call", dest |-> d, uses |-> <<a0>>, defs |-> <<a0>>,
      clobbers |-> get_regs_clobbered_by_call(cc), opcode |-> oc, tmp |-> "x6",
      callee_conv |-> cc, caller_conv |-> "SystemV"] :
        d \in CallDests, oc \in {"Call", "CallIndirect"}, cc \in {"SystemV", "Fast"}}
      \cup {[fn |-> "gen_memcpy", call_conv |-> "SystemV", dst |-> d, src |-> r, size |-> n] :
              d \in {"x5", "x6", a0, a1, a2}, r \in {"x5", "x6", a0, a1, a2}, n \in {0, 24}}
      \cup {[fn |-> "gen_probestack", frame_size |-> n] : n \in {0, 16, 4096}}
      \cup {[fn |-> "gen_add_imm", into_reg |-> t, from_reg |-> f, imm |-> n] :
              t \in {"sp", "x5"}, f \in {"sp", "fp"}, n \in {0, 1, 16, 2047, 2048, 4100}}

\* the values the registers are entered with, all different
GenRank ==
    [n \in {a0, a1, a2, "x5", "x6", "sp", "fp", spilltmp_reg2} |->
        CASE n = a0 -> 10 [] n = a1 -> 11 [] n = a2 -> 12 [] n = "x5" -> 5
          [] n = "x6" -> 6 [] n = "sp" -> 48 [] n = "fp" -> 56 [] OTHER -> 30]

GenInit ==
    /\ gen \in GenCalls
    /\ emitted = << >>
    /\ \E hi \in {0, Word - 64} :
          regs = [n \in DOMAIN GenRank |-> (hi + GenRank[n]) % Word]
    /\ mem = << >>
    /\ insts = << >>
    /\ phase = "gentry"
    /\ entry = regs
    /\ unwind_info = FALSE
    /\ ArgIdle
    /\ ClobIdle
    /\ LowerIdle

\* what a generator leaves: its instructions, handed to the machine
Emit(is) ==
    /\ phase = "gentry"
    /\ emitted' = is
    /\ insts' = is
    /\ phase' = "grun"
    /\ UNCHANGED <<regs, mem, entry, unwind_info, gen, argvars, clobvars, lowervars>>

GenCall ==
    /\ gen.fn = "gen_call"
    /\ Emit(gen_call(gen.dest, gen.uses, gen.defs, gen.clobbers, gen.opcode, gen.tmp,
                     gen.callee_conv, gen.caller_conv))

GenMemcpy ==
    /\ gen.fn = "gen_memcpy"
    /\ Emit(gen_memcpy(gen.call_conv, gen.dst, gen.src, gen.size))

GenProbestack ==
    /\ gen.fn = "gen_probestack"
    /\ Emit(gen_probestack(gen.frame_size))

GenAddImm ==
    /\ gen.fn = "gen_add_imm"
    /\ Emit(gen_add_imm(gen.into_reg, gen.from_reg, gen.imm))

\* the sequence has run to its end or to its call
GenStop ==
    /\ phase = "grun"
    /\ IF insts = << >> THEN TRUE ELSE Head(insts).op \in {"Call", "CallInd"}
    /\ phase' = "gdone"
    /\ UNCHANGED <<regs, mem, insts, entry, unwind_info, argvars, codegenvars>>

NextGen == GenCall \/ GenMemcpy \/ GenProbestack \/ GenAddImm \/ ExecInst \/ GenStop

SpecGen == GenInit /\ [][NextGen]_vars

-----------------------------------------------------------------------------
(* Claims about the call sequences                                         *)

Generated(fn) == gen.fn = fn /\ phase \in {"grun", "gdone"}

\* the call instructions of the emitted sequence
CallsOf(is) == SelectSeq(is, LAMBDA i : i.op \in {"Call", "CallInd"})

\* C13, as stated: gen_call emits exactly one instruction, a direct call, when the
\* destination is an external name at near distance, and for every other
\* destination (a far name, or an address in a register) exactly two: the
\* materialization of the address into the scratch register, then an indirect
\* call through that register.
C13_Original ==
    Generated("gen_call") =>
        IF gen.dest.kind = "ExtName" /\ gen.dest.distance = "Near"
        THEN /\ Len(emitted) = 1
             /\ emitted[1].op = "Call"
        ELSE /\ Len(emitted) = 2
             /\ emitted[1].op \notin {"Call", "CallInd"}
             /\ emitted[1].rd = gen.tmp
             /\ emitted[2].op = "CallInd"
             /\ emitted[2].rn = gen.tmp

\* C13, amended: gen_call emits exactly one direct Call when the destination is
\* a User external name at near distance; for every other external name (far, or
\* a libcall or test-case name at any distance) exactly two instructions, the
\* LoadExtName of the name into the scratch register and then a CallInd through
\* that register; and for an address in a register exactly one CallInd through
\* that register, with no materialization.
C13_CallShape ==
    Generated("gen_call") =>
        LET d == gen.dest
        IN  /\ (d.kind = "ExtName" /\ d.name.kind = "User" /\ d.distance = "Near") =>
                  /\ Len(emitted) = 1
                  /\ emitted[1].op = "Call"
                  /\ emitted[1].dest = d.name
            /\ (d.kind = "ExtName" /\ ~(d.name.kind = "User" /\ d.distance = "Near")) =>
                  /\ Len(emitted) = 2
                  /\ emitted[1] = LoadExtName(gen.tmp, d.name, 0)
                  /\ emitted[2].op = "CallInd"
                  /\ emitted[2].rn = gen.tmp
            /\ d.kind = "Reg" =>
                  /\ Len(emitted) = 1
                  /\ emitted[1].op = "CallInd"
                  /\ emitted[1].rn = d.reg

\* a call through a register has been generated
C13_Witness ==
    /\ Generated("gen_call")
    /\ gen.dest = CallDestReg("x5")
    /\ phase = "gdone"

\* the caller-saved set read off the two tables
CallerSaved ==
    {x_reg(n) : n \in {1, 5, 6, 7} \cup (10..17) \cup (28..31)}
      \cup {f_reg(n) : n \in (0..7) \cup (9..17) \cup (28..31)}

\* C14, as stated: every Call / CallInd produced by gen_call, gen_memcpy and
\* gen_probestack carries exactly the caller-saved set as its clobber set.
C14_Original ==
    (Generated("gen_call") \/ Generated("gen_memcpy") \/ Generated("gen_probestack")) =>
        \A k \in DOMAIN CallsOf(emitted) : CallsOf(emitted)[k].clobbers = CallerSaved

\* C14, amended: the Call of gen_memcpy carries exactly the caller-saved set of
\* get_regs_clobbered_by_call; the Call / CallInd of gen_call carries the clobber
\* set gen_call was given, which is that set when its caller passes
\* get_regs_clobbered_by_call; the Call of gen_probestack carries the empty set.
\* Each of the three sequences holds exactly one call.
C14_CallClobbers ==
    /\ (Generated("gen_call") \/ Generated("gen_memcpy") \/ Generated("gen_probestack")) =>
          Len(CallsOf(emitted)) = 1
    /\ Generated("gen_memcpy") => CallsOf(emitted)[1].clobbers = CallerSaved
    /\ Generated("gen_call") =>
          /\ CallsOf(emitted)[1].clobbers = gen.clobbers
          /\ gen.clobbers = CallerSaved
    /\ Generated("gen_probestack") => CallsOf(emitted)[1].clobbers = {}

\* the probe call has been generated
C14_Witness ==
    /\ Generated("gen_probestack")
    /\ gen.frame_size = 4096
    /\ phase = "gdone"

MemcpyAtCall ==
    /\ Generated("gen_memcpy")
    /\ insts # << >>
    /\ Head(insts).op = "Call"

\* C15, as stated: for any dst and src register and byte count given to
\* gen_memcpy, a0 and a1 themselves included, when the call is reached a0 holds
\* dst's value on entry, a1 holds src's value on entry and a2 the count; the
\* call lists a0, a1, a2 as its uses and is the last instruction.
C15_Original ==
    MemcpyAtCall =>
        /\ regs[a0] = entry[gen.dst]
        /\ regs[a1] = entry[gen.src]
        /\ regs[a2] = gen.size
        /\ Head(insts).uses = <<a0, a1, a2>>
        /\ Len(insts) = 1

\* C15, amended: the same, for any dst and any src other than a0 (or with dst
\* being a0 as well): the move into a0 comes first, so a src of a0 is read after
\* it has been overwritten; a0 and a2 are right and the call is last with uses
\* a0, a1, a2 for every input.
C15_MemcpyArgs ==
    MemcpyAtCall =>
        /\ regs[a0] = entry[gen.dst]
        /\ (gen.src # a0 \/ gen.dst = a0) => regs[a1] = entry[gen.src]
        /\ regs[a2] = gen.size
        /\ Head(insts).uses = <<a0, a1, a2>>
        /\ Len(insts) = 1

\* dst is a1 and src is a2: both moves read registers the sequence also writes
C15_Witness ==
    /\ MemcpyAtCall
    /\ gen.dst = a1
    /\ gen.src = a2
    /\ gen.size = 24

\* C17: for every 32-bit imm, gen_add_imm(into_reg, from_reg, imm) leaves
\* into_reg = from_reg + imm (mod the register width): one immediate-form add
\* when imm fits a signed 12-bit field, otherwise a constant load into the
\* scratch register and a register add; both branches compute the same function.
C17_AddImm ==
    (Generated("gen_add_imm") /\ phase = "gdone") =>
        /\ regs[gen.into_reg] = (entry[gen.from_reg] + gen.imm) % Word
        /\ IF gen.imm < 2048
           THEN Len(emitted) = 1 /\ emitted[1].op = "AluRRImm12"
           ELSE /\ Len(emitted) = 2
                /\ emitted[1].op = "LoadConst"
                /\ emitted[2].op = "AluRRR"

-----------------------------------------------------------------------------
(* The lowering context (lower/isle.rs)                                     *)

\* Type::is_bool
is_bool(ty) == ty \in {"B1", "B8", "B16", "B32", "B64", "B128"}

\* Type::bits
bits(ty) ==
    CASE ty \in {"B1"} -> 1
      [] ty \in {"I8", "B8"} -> 8
      [] ty \in {"I16", "B16"} -> 16
      [] ty \in {"I32", "B32", "F32"} -> 32
      [] ty \in {"I64", "B64", "F64"} -> 64
      [] ty \in {"I128", "B128", "I8X16"} -> 128

IntBoolTypes ==
    {"I8", "I16", "I32", "I64", "I128", "B1", "B8", "B16", "B32", "B64", "B128"}

\* the types a context call is made with: integers, booleans, floats, a vector
LowerTypes == IntBoolTypes \cup {"F32", "F64", "I8X16"}

\* lower_ctx.alloc_tmp: the n-th temporary of the function
temp_writable_reg(n) == "v" \o ToString(n)

\* the zero register x0
zero_reg == "zero"

\* the all-ones pattern !0 of a register
not0 == Word - 1

\* what a context call leaves: whether it returned, the registers it returned,
\* the instructions it emitted and the temporaries it allocated
Lowered(status, rs, is, allocated) ==
    [status |-> status, regs |-> rs, insts |-> is, allocated |-> allocated]

alloc_vec_writable_wide_from_64(ty, n) ==
    IF is_int(ty) \/ is_bool(ty)
    THEN IF bits(ty) < 64
         THEN Lowered("ok", <<temp_writable_reg(n)>>, << >>, 1)
         ELSE Lowered("ok", <<temp_writable_reg(n), temp_writable_reg(n + 1)>>, << >>, 2)
    ELSE IF is_float(ty) THEN Lowered("ok", <<temp_writable_reg(n)>>, << >>, 1)
    ELSE Lowered("abort", << >>, << >>, 0)

\* isle.rs:213-225
alloc_vec_writable(ty, n) ==
    IF is_int(ty) \/ is_bool(ty)
    THEN IF bits(ty) <= 64
         THEN Lowered("ok", <<temp_writable_reg(n)>>, << >>, 1)
         ELSE Lowered("ok", <<temp_writable_reg(n), temp_writable_reg(n + 1)>>, << >>, 2)
    ELSE IF is_float(ty) THEN Lowered("ok", <<temp_writable_reg(n)>>, << >>, 1)
    ELSE Lowered("abort", << >>, << >>, 0)

\* isle.rs:613-629
construct_dest(ty, n) ==
    IF is_bool(ty) \/ is_int(ty)
    THEN IF bits(ty) = 128
         THEN Lowered("ok", <<temp_writable_reg(n), temp_writable_reg(n + 1)>>, << >>, 2)
         ELSE Lowered("ok", <<temp_writable_reg(n)>>, << >>, 1)
    ELSE IF is_float(ty) THEN Lowered("ok", <<temp_writable_reg(n)>>, << >>, 1)
    ELSE Lowered("abort", << >>, << >>, 0)

\* isle.rs:157-164
int_zero_reg(ty) ==
    IF ~(is_int(ty) \/ is_bool(ty)) THEN Lowered("abort", << >>, << >>, 0)
    ELSE IF bits(ty) = 128 THEN Lowered("ok", <<zero_reg, zero_reg>>, << >>, 0)
    ELSE Lowered("ok", <<zero_reg>>, << >>, 0)

\* the moves dst[k] <- src[k] of two bundles of equal length
MovesOf(dst, src) == [k \in 1..Len(dst) |-> Mov(dst[k], src[k])]

\* isle.rs:203-209; rs has as many registers as the destination
gen_moves(rs, out_ty, n) ==
    LET tmp == construct_dest(out_ty, n)
    IN  IF tmp.status = "abort" THEN tmp
        ELSE Lowered("ok", tmp.regs, MovesOf(tmp.regs, rs), tmp.allocated)

imm_bool_as_one(ty, val, n) ==
    LET v == IF is_bool(ty) /\ val # 0 THEN 1 ELSE val
    IN  Lowered("ok", <<temp_writable_reg(n)>>, load_constant(temp_writable_reg(n), v), 1)

\* isle.rs:227-250
imm(ty, val, n) ==
    LET v == IF is_bool(ty) /\ val # 0 THEN not0 ELSE val
    IN  Lowered("ok", <<temp_writable_reg(n)>>, load_constant(temp_writable_reg(n), v), 1)

\* the loop of gen_return over the values still to return  (isle.rs:181-188);
\* each value comes with its source registers (put_value_in_regs) and its return
\* location (retval(i)); what was emitted before an abort stays emitted
RECURSIVE ReturnLoop(_)
ReturnLoop(vals) ==
    IF vals = << >> THEN Lowered("ok", << >>, << >>, 0)
    ELSE IF Len(Head(vals).src) # Len(Head(vals).ret) THEN Lowered("abort", << >>, << >>, 0)
    ELSE LET rest == ReturnLoop(Tail(vals))
         IN  Lowered(rest.status, << >>,
                     MovesOf(Head(vals).ret, Head(vals).src) \o rest.insts, 0)

\* isle.rs:172-191
gen_return(vals) == ReturnLoop(vals)

\* constructor_lower_icmp: the instructions that leave the outcome of the
\* comparison, 1 or 0, in a new temporary
lower_icmp(cc, a, b, ty, n) ==
    Lowered("ok", <<temp_writable_reg(n)>>,
            <<[op |-> "Icmp", cc |-> cc, rd |-> temp_writable_reg(n), rs1 |-> a, rs2 |-> b,
               ty |-> ty]>>, 1)

\* MInst::CondBr { taken, not_taken, kind: IntegerCompare { kind, rs1, rs2 } }
CondBr(taken, not_taken, kind, rs1, rs2) ==
    [op |-> "CondBr", taken |-> taken, not_taken |-> not_taken,
     kind |-> [kind |-> kind, rs1 |-> rs1, rs2 |-> rs2]]

lower_br_icmp_swapped(cc, a, b, targets, ty, n) ==
    LET test == lower_icmp(cc, a, b, ty, n)
    IN  Lowered("ok", << >>,
                test.insts \o <<CondBr(targets[2], targets[1], "NotEqual",
                                       test.regs[1], zero_reg)>>,
                test.allocated)

\* isle.rs:125-144; targets[1] here is targets[0] there
lower_br_icmp(cc, a, b, targets, ty, n) ==
    LET test == lower_icmp(cc, a, b, ty, n)
    IN  Lowered("ok", << >>,
                test.insts \o <<CondBr(targets[1], targets[2], "NotEqual",
                                       test.regs[1], zero_reg)>>,
                test.allocated)

\* the most context calls in one behaviour, and the most values returned
MaxCalls == 2

MaxReturned == 2

\* the values of a return: value i with its source registers and its return
\* location, each of one or two registers
ReturnLists ==
    UNION {{[i \in 1..n |->
               [src |-> [k \in 1..sh[i][1] |-> "s" \o ToString(i) \o ToString(k)],
                ret |-> [k \in 1..sh[i][2] |-> "r" \o ToString(i) \o ToString(k)]]] :
              sh \in [1..n -> (1..2) \X (1..2)]} : n \in 0..MaxReturned}

\* constants given to imm
ImmValues == {0, 1, 2, not0}

LowerInit ==
    /\ LowerIdle
    /\ ArgIdle
    /\ FrameIdle
    /\ ClobIdle
    /\ GenIdle

\* a context call: its instructions are appended to the buffer, its temporaries
\* taken; nothing is called after an abort
ContextCall(op, args, out) ==
    /\ lowered.status = "ok"
    /\ lowered.n < MaxCalls
    /\ buffer' = buffer \o out.insts
    /\ next_vreg' = next_vreg + out.allocated
    /\ lowered' = [op |-> op, args |-> args, status |-> out.status, regs |-> out.regs,
                   emitted |-> Len(out.insts), n |-> lowered.n + 1]
    /\ UNCHANGED <<argvars, framevars, clobvars, genvars>>

CallImm ==
    \E ty \in {"I32", "I64", "B1", "B64", "F64"}, val \in ImmValues :
        ContextCall("imm", [ty |-> ty, val |-> val], imm(ty, val, next_vreg))

CallAllocVecWritable ==
    \E ty \in LowerTypes :
        ContextCall("alloc_vec_writable", [ty |-> ty], alloc_vec_writable(ty, next_vreg))

CallIntZeroReg ==
    \E ty \in LowerTypes : ContextCall("int_zero_reg", [ty |-> ty], int_zero_reg(ty))

CallGenMoves ==
    \E out_ty \in LowerTypes, rs \in {<<"s11">>, <<"s11", "s12">>} :
        /\ Len(rs) = Len(construct_dest(out_ty, next_vreg).regs)
              \/ construct_dest(out_ty, next_vreg).status = "abort"
        /\ ContextCall("gen_moves", [rs |-> rs, out_ty |-> out_ty],
                       gen_moves(rs, out_ty, next_vreg))

CallGenReturn ==
    \E vals \in ReturnLists : ContextCall("gen_return", [val |-> vals], gen_return(vals))

CallLowerBrIcmp ==
    \E cc \in {"Equal", "UnsignedLessThan", "SignedLessThan", "SignedGreaterThanOrEqual"},
       ty \in {"I32", "I64"}, targets \in {<<1, 2>>, <<2, 1>>} :
        ContextCall("lower_br_icmp",
                    [cc |-> cc, a |-> "va", b |-> "vb", targets |-> targets, ty |-> ty],
                    lower_br_icmp(cc, "va", "vb", targets, ty, next_vreg))

NextLower ==
    \/ CallImm
    \/ CallAllocVecWritable
    \/ CallIntZeroReg
    \/ CallGenMoves
    \/ CallGenReturn
    \/ CallLowerBrIcmp

SpecLower == LowerInit /\ [][NextLower]_vars

-----------------------------------------------------------------------------
(* Claims about the lowering context                                       *)

\* the instructions the last context call appended
Appended == SubSeq(buffer, Len(buffer) - lowered.emitted + 1, Len(buffer))

\* the registers after a sequence of instructions
RECURSIVE Run(_, _)
Run(is, rg) == IF is = << >> THEN rg ELSE Run(Tail(is), ExecRegs(Head(is), rg, << >>))

\* the target a conditional branch goes to
BranchTarget(br, rg) ==
    IF IntCCHolds(br.kind.kind, rg[br.kind.rs1], rg[br.kind.rs2])
    THEN br.taken ELSE br.not_taken

\* C16: imm(ty, val) loads the all-ones pattern for every boolean type and
\* nonzero val, zero for val = 0, and for every non-boolean type val unchanged;
\* boolean true is never the bare 1. The constant is loaded into the new
\* temporary that imm returns.
C16_ImmBool ==
    lowered.op = "imm" =>
        LET ty == lowered.args.ty
            val == lowered.args.val
            bool == ty \in {"B1", "B8", "B16", "B32", "B64", "B128"}
            rd == lowered.regs[1]
            loaded == Run(Appended, [r \in {rd} |-> 0])[rd]
        IN  /\ lowered.status = "ok"
            /\ lowered.emitted >= 1
            /\ (bool /\ val # 0) => loaded = Word - 1 /\ loaded # 1
            /\ val = 0 => loaded = 0
            /\ ~bool => loaded = val
            /\ \A k \in 1..(Len(buffer) - lowered.emitted) :
                  "rd" \in DOMAIN buffer[k] => buffer[k].rd # rd

\* true of type B1, after an earlier call has emitted
C16_Witness ==
    /\ lowered.op = "imm"
    /\ lowered.args = [ty |-> "B1", val |-> 1]
    /\ lowered.n = 2
    /\ Len(buffer) = 2
    /\ buffer[2].imm = Word - 1

\* C19: for every integer or boolean type, alloc_vec_writable, construct_dest
\* (through gen_moves) and int_zero_reg yield two registers exactly when the
\* type is 128 bits wide and one otherwise; gen_return moves the k-th source
\* register of each returned value into the k-th register of its return
\* location, for every k, and aborts if the two bundles differ in length.
C19_Lockstep ==
    /\ (/\ lowered.op \in {"alloc_vec_writable", "int_zero_reg"}
        /\ lowered.args.ty \in IntBoolTypes) =>
          /\ lowered.status = "ok"
          /\ Len(lowered.regs) = IF lowered.args.ty \in {"I128", "B128"} THEN 2 ELSE 1
    /\ (lowered.op = "gen_moves" /\ lowered.args.out_ty \in IntBoolTypes) =>
          /\ lowered.status = "ok"
          /\ Len(lowered.regs) = IF lowered.args.out_ty \in {"I128", "B128"} THEN 2 ELSE 1
    /\ lowered.op = "gen_return" =>
          LET vals == lowered.args.val
              pairs == {p \in (1..Len(vals)) \X (1..2) : p[2] <= Len(vals[p[1]].src)}
              same == \A i \in 1..Len(vals) : Len(vals[i].src) = Len(vals[i].ret)
          IN  /\ same <=> lowered.status = "ok"
              /\ same =>
                    /\ Len(Appended) = Cardinality(pairs)
                    /\ \A p \in pairs :
                          \E j \in 1..Len(Appended) :
                              Appended[j] = Mov(vals[p[1]].ret[p[2]], vals[p[1]].src[p[2]])

\* a two-register and a one-register value have been returned, then registers
\* were allocated for a 128-bit type
C19_Witness ==
    /\ lowered.op = "alloc_vec_writable"
    /\ lowered.args.ty = "B128"
    /\ Len(lowered.regs) = 2
    /\ buffer = <<Mov("r11", "s11"), Mov("r12", "s12"), Mov("r21", "s21")>>

\* the values of the two compared registers
CmpValues == {0, 1, Word - 1}

\* C20: a call of lower_br_icmp leaves the buffer as it was, followed by the
\* comparison's instructions, followed by exactly one conditional branch, the
\* last instruction; the branch's condition is a (kind, register, register)
\* triple, and for all values of the compared registers it goes to targets[0]
\* when the comparison holds and to targets[1] otherwise.
C20_BranchLast ==
    [][(lowered'.op = "lower_br_icmp" /\ lowered'.n = lowered.n + 1) =>
          LET n == Len(buffer)
              m == Len(buffer')
              br == buffer'[m]
              cmp == SubSeq(buffer', n + 1, m - 1)
              a == lowered'.args
          IN  /\ m >= n + 2
              /\ SubSeq(buffer', 1, n) = buffer
              /\ \A j \in 1..Len(cmp) : cmp[j].op # "CondBr"
              /\ br.op = "CondBr"
              /\ DOMAIN br.kind = {"kind", "rs1", "rs2"}
              /\ \A x \in CmpValues, y \in CmpValues :
                    LET rg == [r \in {a.a, a.b, zero_reg}
                                       \cup {temp_writable_reg(k) : k \in 0..next_vreg'} |->
                                  IF r = a.a THEN x ELSE IF r = a.b THEN y ELSE 0]
                    IN  BranchTarget(br, Run(cmp, rg)) =
                            IF IntCCHolds(a.cc, x, y) THEN a.targets[1] ELSE a.targets[2]
      ]_vars

\* a branch has been lowered after an earlier call emitted a constant load
C20_Witness ==
    /\ lowered.op = "lower_br_icmp"
    /\ lowered.args.cc = "SignedLessThan"
    /\ Len(buffer) = 3
    /\ buffer[1].op = "LoadConst"
    /\ buffer[3].op = "CondBr"

-----------------------------------------------------------------------------
(* Claims about the location list as a whole                               *)

\* the slots of the returned list: <<k, j>> is slot j of location k, <<k, 0>> the
\* struct argument that is location k
SlotIds ==
    UNION {IF result.args[k].kind = "StructArg" THEN {<<k, 0>>}
           ELSE {<<k, j>> : j \in 1..Len(result.args[k].slots)} :
           k \in 1..Len(result.args)}

IsRegSlot(id) == id[2] > 0 /\ result.args[id[1]].slots[id[2]].kind = "Reg"

\* the byte range <<first, size>> of a stack-resident slot
StackRange(id) ==
    IF id[2] = 0 THEN <<result.args[id[1]].offset, result.args[id[1]].size>>
    ELSE <<result.args[id[1]].slots[id[2]].offset, 8>>

Disjoint(r, q) == r[1] + r[2] <= q[1] \/ q[1] + q[2] <= r[1]

\* C21: in every successful result no two location slots overlap: every real
\* register is in at most one slot of the whole list, the return-area pointer
\* included, and the byte ranges of the stack-resident slots (8 bytes per scalar
\* slot or 128-bit half, size bytes per struct argument) are pairwise disjoint
\* and lie inside [0, reported stack size).
C21_NoOverlap ==
    Ok =>
        /\ \A a \in SlotIds, b \in SlotIds :
              (a # b /\ IsRegSlot(a) /\ IsRegSlot(b)) =>
                  result.args[a[1]].slots[a[2]].reg # result.args[b[1]].slots[b[2]].reg
        /\ \A a \in SlotIds, b \in SlotIds :
              (a # b /\ ~IsRegSlot(a) /\ ~IsRegSlot(b)) =>
                  Disjoint(StackRange(a), StackRange(b))
        /\ \A a \in SlotIds :
              ~IsRegSlot(a) =>
                  /\ StackRange(a)[1] >= 0
                  /\ StackRange(a)[1] + StackRange(a)[2] <= result.stack

\* seven integers fill the registers but one; a 128-bit value is split between
\* the last register and the stack, a struct argument and a deferred value
\* follow on the stack, and the return-area pointer comes last, on the stack
C21_Witness ==
    /\ Ok
    /\ add_ret_area_ptr
    /\ Len(params) = 10
    /\ \E k \in 1..Len(result.args) : result.args[k].kind = "StructArg"
    /\ \E k \in 1..Len(result.args) :
          /\ result.args[k].kind = "Slots"
          /\ Len(result.args[k].slots) = 2
          /\ result.args[k].slots[1].kind = "Reg"
          /\ result.args[k].slots[2].kind = "Stack"
    /\ Cardinality({a \in SlotIds : ~IsRegSlot(a)}) >= 4
    /\ IsOneStackSlot(result.args[Len(result.args)])

\* the state compute_arg_locs leaves its loop in, on the inputs of the call
AfterLoop ==
    Loop(InitLoopState(params, ArgRegRange(args_or_rets)), 0, params,
         ArgRegRange(args_or_rets))

\* C22: the backward cursor of compute_arg_locs is always in bounds: for every
\* parameter list (the empty list, a single parameter and lists where every
\* parameter after the first is deferred included) at most len-1 parameters are
\* deferred, the cursor is never decremented at 0 and it stays within 0..len-1,
\* so params is never indexed outside its bounds.
C22_CursorInBounds ==
    Called =>
        LET top == IF NParams > 0 THEN NParams - 1 ELSE 0
            st == AfterLoop
            deferred == Len(st.abi_args_for_stack)
        IN  /\ ~st.underflow
            /\ deferred <= top
            /\ st.params_last >= 0
            /\ st.params_last <= top
            /\ ~st.abort => st.params_last = top - deferred

\* return values: a 128-bit value takes both registers and every value after the
\* first is deferred, which brings the cursor down to the first parameter
C22_Witness ==
    /\ Ok
    /\ args_or_rets = "Rets"
    /\ params = <<AbiParam("I128", "None", Normal), PI64, PI64>>
    /\ Len(AfterLoop.abi_args_for_stack) = 2
    /\ AfterLoop.params_last = 0

-----------------------------------------------------------------------------
(* The frame header and its readers                                         *)

\* abi.rs:266-269
fp_to_arg_offset == 16

\* MInst::Load { rd, op: LoadOP::Ld, from: AMode::FPOffset(off, I64) }
LoadFPOffset(rd, off) == [op |-> "LoadFPOffset", rd |-> rd, off |-> off]

load_ra_from_fp(n) ==
    Lowered("ok", <<temp_writable_reg(n)>>, <<LoadFPOffset(temp_writable_reg(n), 0)>>, 1)

\* isle.rs:145-156
load_ra(n) ==
    Lowered("ok", <<temp_writable_reg(n)>>, <<LoadFPOffset(temp_writable_reg(n), 8)>>, 1)

\* a function is entered; its body will read the return address into its first
\* temporary
HeaderInit ==
    /\ regs \in [{"sp", "fp", "ra", temp_writable_reg(0)} -> RegValues \cup EntrySP]
    /\ regs["sp"] \in EntrySP
    /\ regs["fp"] \in RegValues
    /\ regs["ra"] \in RegValues
    /\ regs[temp_writable_reg(0)] = 0
    /\ unwind_info \in BOOLEAN
    /\ mem = << >>
    /\ insts = << >>
    /\ phase = "entry"
    /\ entry = regs
    /\ ArgIdle
    /\ ClobIdle
    /\ GenIdle
    /\ LowerIdle

\* the body reaches the instruction load_ra emitted
LoadRa ==
    /\ phase = "prologue"
    /\ insts = << >>
    /\ insts' = load_ra(0).insts
    /\ phase' = "loadra"
    /\ UNCHANGED <<regs, mem, entry, unwind_info, argvars, codegenvars>>

\* the load has run
LoadRaDone ==
    /\ phase = "loadra"
    /\ insts = << >>
    /\ phase' = "hdone"
    /\ UNCHANGED <<regs, mem, insts, entry, unwind_info, argvars, codegenvars>>

NextHeader == StartPrologue \/ ExecInst \/ LoadRa \/ LoadRaDone

SpecHeader == HeaderInit /\ [][NextHeader]_vars

\* C23: the frame-header layout is the same for its writer and its readers:
\* once gen_prologue_frame_setup has run, the saved return address is at
\* frame-pointer offset 8, which is the slot load_ra reads (its temporary holds
\* the return address of entry), the saved old frame pointer is at frame-pointer
\* offset 0, and frame pointer + fp_to_arg_offset (16) is the stack pointer of
\* before the prologue, which is also the offset_upward_to_caller_sp of the
\* unwind directives.
C23_HeaderLayout ==
    /\ ((phase = "prologue" /\ insts = << >>) \/ phase \in {"loadra", "hdone"}) =>
          /\ mem[(regs["fp"] + 8) % Word] = entry["ra"]
          /\ mem[regs["fp"]] = entry["fp"]
          /\ (regs["fp"] + fp_to_arg_offset) % Word = entry["sp"]
          /\ fp_to_arg_offset = 16
          /\ \A k \in DOMAIN gen_prologue_frame_setup(unwind_info) :
                gen_prologue_frame_setup(unwind_info)[k].op = "Unwind" =>
                    gen_prologue_frame_setup(unwind_info)[k].offset_upward_to_caller_sp
                        = fp_to_arg_offset
          /\ gen_clobber_save(TRUE, TRUE, << >>, 0)[2][1].offset_upward_to_caller_sp
                = fp_to_arg_offset
    /\ phase = "hdone" => regs[load_ra(0).regs[1]] = entry["ra"]

\* entered with a stack pointer that wraps in the prologue and with unwind
\* information; the return address has been read back
C23_Witness ==
    /\ phase = "hdone"
    /\ unwind_info
    /\ entry["sp"] = 8
    /\ entry["ra"] = 24
    /\ entry["fp"] = 0
    /\ regs[temp_writable_reg(0)] = 24

-----------------------------------------------------------------------------
(* The save-class tables                                                    *)

\* the registers of the returned list
AssignedRegs ==
    {result.args[id[1]].slots[id[2]].reg : id \in {a \in SlotIds : IsRegSlot(a)}}

\* the registers compute_arg_locs draws from for arguments, both classes
ArgumentRegs ==
    {x_reg(n) : n \in ArgRegRange("Args").x_start..ArgRegRange("Args").x_end}
      \cup {f_reg(n) : n \in ArgRegRange("Args").f_start..ArgRegRange("Args").f_end}

\* the registers the call of gen_memcpy uses
MemcpyRegs ==
    LET is == gen_memcpy("SystemV", "x5", "x6", 0)
        uses == is[Len(is)].uses
    IN  {r \in {x_reg(n) : n \in 0..31} : \E k \in 1..Len(uses) : RegName(r) = uses[k]}

\* a register is caller-saved for the convention and is not one the prologue saves
CallerSavedOnly(r) ==
    /\ r \in get_regs_clobbered_by_call("SystemV")
    /\ get_clobbered_callee_saves(<<r>>) = << >>

\* the registers of both classes that pass CallerSavedOnly
CallerSavedOnlyRegs ==
    {r \in {x_reg(n) : n \in 0..31} \cup {f_reg(n) : n \in 0..31} : CallerSavedOnly(r)}

\* the part of the claim that does not depend on the call made
SaveTablesConsistent ==
    /\ \A n \in 0..31 :
          /\ ~(CALLER_SAVE_X_REG[n] /\ CALLEE_SAVE_X_REG[n])
          /\ ~(CALLER_SAVE_F_REG[n] /\ CALLEE_SAVE_F_REG[n])
    /\ ArgumentRegs = {x_reg(n) : n \in 10..17} \cup {f_reg(n) : n \in 10..17}
    /\ ArgumentRegs \subseteq CallerSavedOnlyRegs
    /\ MemcpyRegs = {x_reg(10), x_reg(11), x_reg(12)}
    /\ MemcpyRegs \subseteq CallerSavedOnlyRegs

\* C24: the save-class tables are consistent: for each class and each hardware
\* encoding 0..31 no register is marked both caller-saved and callee-saved, and
\* every register compute_arg_locs can assign to an argument or return value
\* (x10..x17, f10..f17), as well as a0, a1, a2 used by gen_memcpy, is in the set
\* of get_regs_clobbered_by_call and is never selected by
\* get_clobbered_callee_saves.
C24_SaveTables ==
    Called =>
        /\ SaveTablesConsistent
        /\ Ok =>
              /\ AssignedRegs \subseteq ArgumentRegs
              /\ AssignedRegs \subseteq CallerSavedOnlyRegs

\* a call that assigns the last argument register of each class
C24_Witness ==
    /\ Ok
    /\ args_or_rets = "Args"
    /\ x_reg(17) \in AssignedRegs
    /\ f_reg(17) \in AssignedRegs
    /\ x_reg(10) \in AssignedRegs
    /\ f_reg(10) \in AssignedRegs
====
